---- MODULE Spec2Model ----
(***************************************************************************)
(* The three Next.js proxy routes of voicera_frontend:                     *)
(*   POST /api/v1/members/delete-member   (members/delete-member/route.ts) *)
(*   GET  /api/v1/users/me                (users/me route)                 *)
(*   GET  /api/v1/users/{email}           (users/[email]/route.ts)         *)
(* One handler invocation is modelled from the arrival of the inbound      *)
(* request to the response.  The backend is the environment: it answers    *)
(* the outbound fetch with any status and any body text, or the transport  *)
(* fails, or nothing happens.                                              *)
(*                                                                         *)
(* Body texts are sequences of JSON lexemes.  response.json() /            *)
(* request.json() is ParseJSON, JSON.stringify / NextResponse.json is      *)
(* Stringify; neither is the identity: white space is dropped and a number *)
(* beyond the double range (1e400) parses to Infinity and is written null. *)
(***************************************************************************)
EXTENDS Naturals, Sequences, FiniteSets, TLC

\* Longest backend reply body, in lexemes.
MaxBodyLen == 3
\* Longest inbound request body, in lexemes.
MaxInLen == 1

-----------------------------------------------------------------------------
(* JSON texts and values *)

ObjTokens == {"{\"success\":true}", "{\"error\":\"not found\"}",
              "{\"error\":\"Internal server error\"}",
              "{\"error\":\"Authorization header is required\"}"}

\* Lexemes a peer (caller or backend) writes into a body.
Alphabet == {"{\"success\":true}", "{\"error\":\"not found\"}", "1e400", "[", "]", " "}

RECURSIVE SeqsUpTo(_, _)
SeqsUpTo(S, n) ==
  IF n = 0 THEN {<<>>}
  ELSE LET shorter == SeqsUpTo(S, n - 1)
       IN  shorter \cup {Append(s, x) : s \in {t \in shorter : Len(t) = n - 1}, x \in S}

Obj(tok) == [k |-> "object", v |-> tok, e |-> <<>>]
Infinity == [k |-> "number", v |-> "Infinity", e |-> <<>>]
Null == [k |-> "null", v |-> "null", e |-> <<>>]
Arr(elems) == [k |-> "array", v |-> "", e |-> elems]

SyntaxError == [ok |-> FALSE, val |-> Null, next |-> 0]
Parsed(val, next) == [ok |-> TRUE, val |-> val, next |-> next]

\* Index of the first lexeme at or after i that is not white space.
RECURSIVE SkipWs(_, _)
SkipWs(s, i) ==
  IF i <= Len(s) /\ s[i] = " " THEN SkipWs(s, i + 1) ELSE i

\* One JSON value starting at lexeme i (JSON.parse's grammar on the lexemes).
RECURSIVE ParseValue(_, _)
ParseValue(s, i) ==
  IF i > Len(s) THEN SyntaxError
  ELSE IF s[i] \in ObjTokens THEN Parsed(Obj(s[i]), i + 1)
  ELSE IF s[i] = "1e400" THEN Parsed(Infinity, i + 1)
  ELSE IF s[i] = "null" THEN Parsed(Null, i + 1)
  ELSE IF s[i] = "[" THEN
    LET j == SkipWs(s, i + 1)
    IN  IF j > Len(s) THEN SyntaxError
        ELSE IF s[j] = "]" THEN Parsed(Arr(<<>>), j + 1)
        ELSE LET r == ParseValue(s, j)
                 c == SkipWs(s, r.next)
             IN  IF r.ok /\ c <= Len(s) /\ s[c] = "]"
                 THEN Parsed(Arr(<<r.val>>), c + 1)
                 ELSE SyntaxError
  ELSE SyntaxError

\* await response.json() / await request.json(): the whole text is one value.
ParseJSON(s) ==
  LET r == ParseValue(s, SkipWs(s, 1))
  IN  IF r.ok /\ SkipWs(s, r.next) > Len(s) THEN r ELSE SyntaxError

\* JSON.stringify: no white space; a non-finite number is written null.
RECURSIVE Stringify(_)
Stringify(val) ==
  IF val.k = "object" THEN <<val.v>>
  ELSE IF val.k = "array" THEN
    <<"[">> \o (IF Len(val.e) = 0 THEN <<>> ELSE Stringify(val.e[1])) \o <<"]">>
  ELSE <<"null">>

-----------------------------------------------------------------------------
(* Requests and responses *)

\* request.headers.get("Authorization") of a request without that header.
NoHeader == "<null>"
\* Values of the inbound Authorization header; "" is a header that is present
\* and empty.
AuthValues == {NoHeader, "", "Bearer A", "Bearer B"}

\* The {email} path parameter, as characters.
Emails == {<<"a", "@", "b">>, <<"a", " ", "b">>}

BackendStatuses == {200, 201, 204, 401, 404}
\* What the backend can answer: a 204 carries no body.
BackendReplies ==
  {[kind |-> "reply", status |-> st, body |-> b] :
     st \in BackendStatuses \ {204}, b \in SeqsUpTo(Alphabet, MaxBodyLen)}
  \cup {[kind |-> "reply", status |-> 204, body |-> <<>>]}

NoReply == [kind |-> "none", status |-> 0, body |-> <<>>]
Pending == [kind |-> "pending", status |-> 0, body |-> <<>>]
TypeErrorFetchFailed == [kind |-> "error", status |-> 0, body |-> <<>>]

\* encodeURIComponent on one character, and on the parameter.
EncodeChar(c) ==
  IF c = "@" THEN <<"%40">> ELSE IF c = " " THEN <<"%20">> ELSE <<c>>

RECURSIVE encodeURIComponent(_)
encodeURIComponent(str) ==
  IF str = <<>> THEN <<>> ELSE EncodeChar(Head(str)) \o encodeURIComponent(Tail(str))

\* Variant: only the empty header is refused, a request without the header
\* passes.
MissingAuth_emptyOnly(h) == h = ""

\* if (!authHeader): null and the empty string are both falsy.
MissingAuth(h) == h = NoHeader \/ h = ""

\* Variant: every status below 500 counts as success.
Ok_below500(status) == status < 500

\* Variant: only 200 counts as success.
Ok_only200(status) == status = 200

\* response.ok
Ok(status) == status >= 200 /\ status <= 299

\* NextResponse.json(data, { status })
NextResponseJson(data, status) == [status |-> status, body |-> Stringify(data)]

\* NextResponse.json(data): the status defaults to 200.
NextResponseJsonDefault(data) == NextResponseJson(data, 200)

\* NextResponse.json({ error: "Authorization header is required" }, { status: 401 })
Unauthorized ==
  NextResponseJson(Obj("{\"error\":\"Authorization header is required\"}"), 401)

\* Variant: the catch block answers 502.
InternalServerError_502 ==
  NextResponseJson(Obj("{\"error\":\"Internal server error\"}"), 502)

\* NextResponse.json({ error: "Internal server error" }, { status: 500 })
InternalServerError ==
  NextResponseJson(Obj("{\"error\":\"Internal server error\"}"), 500)

\* The fetch() argument of the delete-member route.
POST_Outbound(auth, body) ==
  [method |-> "POST", path |-> "/api/v1/members/delete-member", param |-> <<>>,
   contentType |-> "application/json", accept |-> "application/json",
   authorization |-> auth, hasBody |-> TRUE, body |-> Stringify(body)]

\* Variant: the Authorization header is left out of the fetch() headers.
ME_Outbound_noAuth(auth) ==
  [method |-> "GET", path |-> "/api/v1/users/me", param |-> <<>>,
   contentType |-> NoHeader, accept |-> "application/json",
   authorization |-> NoHeader, hasBody |-> FALSE, body |-> <<>>]

\* The fetch() argument of the users/me route.
ME_Outbound(auth) ==
  [method |-> "GET", path |-> "/api/v1/users/me", param |-> <<>>,
   contentType |-> NoHeader, accept |-> "application/json",
   authorization |-> auth, hasBody |-> FALSE, body |-> <<>>]

\* The fetch() argument of the users/{email} route.
EMAIL_Outbound(em) ==
  [method |-> "GET", path |-> "/api/v1/users/", param |-> encodeURIComponent(em),
   contentType |-> NoHeader, accept |-> "application/json",
   authorization |-> NoHeader, hasBody |-> FALSE, body |-> <<>>]

-----------------------------------------------------------------------------
(* One handler invocation *)

VARIABLES
  route,       \* which handler runs: "none" before the request arrives
  authHeader,  \* the inbound Authorization header
  reqBody,     \* the inbound body text
  email,       \* the inbound path parameter
  pc,          \* "idle", "reqjson" (await request.json()), "fetching", "done"
  bodyRead,    \* request.json() has been called
  outbound,    \* the fetch() calls issued, in order
  net,         \* the outcome of the outbound call
  responses,   \* the responses returned to the caller
  logs         \* console.error entries

vars == <<route, authHeader, reqBody, email, pc, bodyRead, outbound, net, responses, logs>>

Init ==
  /\ route = "none"
  /\ authHeader = NoHeader
  /\ reqBody = <<>>
  /\ email = <<>>
  /\ pc = "idle"
  /\ bodyRead = FALSE
  /\ outbound = <<>>
  /\ net = NoReply
  /\ responses = <<>>
  /\ logs = <<>>

\* return <response>
Return(resp) ==
  /\ responses' = Append(responses, resp)
  /\ pc' = "done"

\* Variant: the catch block logs and returns nothing.
Catch_logOnly(msg) ==
  /\ logs' = Append(logs, msg)
  /\ pc' = "done"
  /\ UNCHANGED responses

\* catch (error) { console.error(msg, error); return 500 }
Catch(msg) ==
  /\ logs' = Append(logs, msg)
  /\ Return(InternalServerError)

\* Variant: the call is issued twice.
Fetch_twice(req) ==
  /\ outbound' = Append(Append(outbound, req), req)
  /\ net' = Pending
  /\ pc' = "fetching"

\* await fetch(url, init): the call is issued and the handler suspends.
Fetch(req) ==
  /\ outbound' = Append(outbound, req)
  /\ net' = Pending
  /\ pc' = "fetching"

(* POST /api/v1/members/delete-member *)

\* Variant: the body is parsed before the Authorization header is looked at.
POST_Invoke_parseFirst(h, b) ==
  /\ pc = "idle"
  /\ route' = "delete-member"
  /\ authHeader' = h
  /\ reqBody' = b
  /\ bodyRead' = TRUE
  /\ IF ~ParseJSON(b).ok
     THEN Catch("Error deleting member:")
     ELSE /\ IF MissingAuth(h)
             THEN Return(Unauthorized)
             ELSE pc' = "reqjson" /\ UNCHANGED responses
          /\ UNCHANGED logs
  /\ UNCHANGED <<email, outbound, net>>

\* Entry up to await request.json().
POST_Invoke(h, b) ==
  /\ pc = "idle"
  /\ route' = "delete-member"
  /\ authHeader' = h
  /\ reqBody' = b
  /\ IF MissingAuth(h)
     THEN Return(Unauthorized)
     ELSE /\ pc' = "reqjson"
          /\ UNCHANGED responses
  /\ UNCHANGED <<email, bodyRead, outbound, net, logs>>

\* request.json() settles; on success fetch() is called.
POST_BodyRead ==
  /\ pc = "reqjson"
  /\ route = "delete-member"
  /\ bodyRead' = TRUE
  /\ LET body == ParseJSON(reqBody)
     IN  IF ~body.ok
         THEN Catch("Error deleting member:") /\ UNCHANGED <<outbound, net>>
         ELSE Fetch(POST_Outbound(authHeader, body.val)) /\ UNCHANGED <<responses, logs>>
  /\ UNCHANGED <<route, authHeader, reqBody, email>>

\* fetch() settles; response.json(); the relay or the catch block.
POST_Relay ==
  /\ pc = "fetching"
  /\ route = "delete-member"
  /\ net.kind \in {"reply", "error"}
  /\ LET data == ParseJSON(net.body)
     IN  IF net.kind = "error" \/ ~data.ok
         THEN Catch("Error deleting member:")
         ELSE /\ IF ~Ok(net.status)
                 THEN Return(NextResponseJson(data.val, net.status))
                 ELSE Return(NextResponseJsonDefault(data.val))
              /\ UNCHANGED logs
  /\ UNCHANGED <<route, authHeader, reqBody, email, bodyRead, outbound, net>>

(* GET /api/v1/users/me *)

ME_Invoke(h) ==
  /\ pc = "idle"
  /\ route' = "users/me"
  /\ authHeader' = h
  /\ IF MissingAuth(h)
     THEN Return(Unauthorized) /\ UNCHANGED <<outbound, net>>
     ELSE Fetch(ME_Outbound(h)) /\ UNCHANGED responses
  /\ UNCHANGED <<reqBody, email, bodyRead, logs>>

ME_Relay ==
  /\ pc = "fetching"
  /\ route = "users/me"
  /\ net.kind \in {"reply", "error"}
  /\ LET data == ParseJSON(net.body)
     IN  IF net.kind = "error" \/ ~data.ok
         THEN Catch("Error fetching current user:")
         ELSE /\ IF ~Ok(net.status)
                 THEN Return(NextResponseJson(data.val, net.status))
                 ELSE Return(NextResponseJsonDefault(data.val))
              /\ UNCHANGED logs
  /\ UNCHANGED <<route, authHeader, reqBody, email, bodyRead, outbound, net>>

(* GET /api/v1/users/{email} *)

\* Variant: the users/me prologue copied into this route.
EMAIL_Invoke_authChecked(h, em) ==
  /\ pc = "idle"
  /\ route' = "users/[email]"
  /\ authHeader' = h
  /\ email' = em
  /\ IF MissingAuth(h)
     THEN Return(Unauthorized) /\ UNCHANGED <<outbound, net>>
     ELSE Fetch([EMAIL_Outbound(em) EXCEPT !.authorization = h]) /\ UNCHANGED responses
  /\ UNCHANGED <<reqBody, bodyRead, logs>>

\* Entry: await params, then fetch().
EMAIL_Invoke(h, em) ==
  /\ pc = "idle"
  /\ route' = "users/[email]"
  /\ authHeader' = h
  /\ email' = em
  /\ Fetch(EMAIL_Outbound(em))
  /\ UNCHANGED <<reqBody, bodyRead, responses, logs>>

EMAIL_Relay ==
  /\ pc = "fetching"
  /\ route = "users/[email]"
  /\ net.kind \in {"reply", "error"}
  /\ LET data == ParseJSON(net.body)
     IN  IF net.kind = "error" \/ ~data.ok
         THEN Catch("Error checking user:")
         ELSE /\ IF ~Ok(net.status)
                 THEN Return(NextResponseJson(data.val, net.status))
                 ELSE Return(NextResponseJsonDefault(data.val))
              /\ UNCHANGED logs
  /\ UNCHANGED <<route, authHeader, reqBody, email, bodyRead, outbound, net>>

(* The backend and the network *)

BackendReply(r) ==
  /\ pc = "fetching"
  /\ net = Pending
  /\ net' = r
  /\ UNCHANGED <<route, authHeader, reqBody, email, pc, bodyRead, outbound, responses, logs>>

NetworkError ==
  /\ pc = "fetching"
  /\ net = Pending
  /\ net' = TypeErrorFetchFailed
  /\ UNCHANGED <<route, authHeader, reqBody, email, pc, bodyRead, outbound, responses, logs>>

Invoke ==
  \/ \E h \in AuthValues, b \in SeqsUpTo(Alphabet, MaxInLen) : POST_Invoke(h, b)
  \/ \E h \in AuthValues : ME_Invoke(h)
  \/ \E h \in AuthValues, em \in Emails : EMAIL_Invoke(h, em)

\* The handler's continuations, run by the event loop once their await settled.
Resume == POST_BodyRead \/ POST_Relay \/ ME_Relay \/ EMAIL_Relay

Settle == (\E r \in BackendReplies : BackendReply(r)) \/ NetworkError

Next == Invoke \/ Resume \/ Settle

Spec == Init /\ [][Next]_vars

\* The event loop runs every continuation that is ready; nothing obliges the
\* backend to answer.
FairSpec == Spec /\ WF_vars(Resume)

-----------------------------------------------------------------------------
(* Properties *)

AuthRoutes == {"delete-member", "users/me"}

\* The two responses the handlers build themselves, written out.
Resp401 ==
  [status |-> 401, body |-> <<"{\"error\":\"Authorization header is required\"}">>]
Resp500 ==
  [status |-> 500, body |-> <<"{\"error\":\"Internal server error\"}">>]

Responded == pc = "done" /\ Len(responses) = 1
BackendAnswered == net.kind = "reply"
\* The inbound request carries a usable credential.
HasCredential == authHeader \in {"Bearer A", "Bearer B"}
\* The JSON value of a body text; a text that is not JSON has none.
ValidJSON(text) == ParseJSON(text).ok
SameJSON(a, b) == ValidJSON(a) /\ ValidJSON(b) /\ ParseJSON(a).val = ParseJSON(b).val
\* A number beyond the double range occurs in the text.
HasHugeNumber(text) == \E i \in 1..Len(text) : text[i] = "1e400"
Is2xx(st) == st \in 200..299

\* C1: on delete-member and users/me a request without an Authorization
\* header is answered 401 {"error": "Authorization header is required"},
\* exactly once, and no outbound call is ever issued for it.
C1_MissingAuthIs401 ==
  (route \in AuthRoutes /\ authHeader = NoHeader) =>
    /\ responses = <<Resp401>>
    /\ pc = "done"
    /\ outbound = <<>>
    /\ net = NoReply

C1_Witness ==
  route = "delete-member" /\ authHeader = NoHeader /\ pc = "done" /\ reqBody # <<>>

\* C2 as stated: whenever the backend answered with a non-2xx status, whatever
\* the body, the response has the backend's status and the backend's body.
C2_AsStated ==
  (Responded /\ BackendAnswered /\ ~Is2xx(net.status)) =>
    /\ responses[1].status = net.status
    /\ SameJSON(responses[1].body, net.body)

\* C2 amended: whenever the backend answered with a non-2xx status and a body
\* that is valid JSON holding no number beyond the double range, the response
\* has the backend's status and a body that is the same JSON value.
C2_ErrorPassThrough ==
  (Responded /\ BackendAnswered /\ ~Is2xx(net.status)
     /\ ValidJSON(net.body) /\ ~HasHugeNumber(net.body)) =>
    /\ responses[1].status = net.status
    /\ SameJSON(responses[1].body, net.body)

C2_Witness ==
  /\ Responded /\ BackendAnswered /\ net.status = 404
  /\ net.body = <<" ", "{\"error\":\"not found\"}", " ">>
  /\ responses[1] = [status |-> 404, body |-> <<"{\"error\":\"not found\"}">>]

\* C3 as stated: whenever the backend answered with a 2xx status, the response
\* has status 200 and the backend's parsed JSON body.
C3_AsStated ==
  (Responded /\ BackendAnswered /\ Is2xx(net.status)) =>
    /\ responses[1].status = 200
    /\ SameJSON(responses[1].body, net.body)

\* C3 amended: whenever the backend answered with a 2xx status and a body that
\* is valid JSON holding no number beyond the double range, the response has
\* status 200 and a body that is the same JSON value.
C3_SuccessRelay ==
  (Responded /\ BackendAnswered /\ Is2xx(net.status)
     /\ ValidJSON(net.body) /\ ~HasHugeNumber(net.body)) =>
    /\ responses[1].status = 200
    /\ SameJSON(responses[1].body, net.body)

C3_Witness ==
  /\ Responded /\ BackendAnswered /\ net.status = 201
  /\ route = "delete-member"
  /\ net.body = <<"[", "{\"success\":true}", "]">>
  /\ responses[1].status = 200

\* C4: whenever the backend answered with a 2xx status and the handler relays
\* that answer, the response's status is the backend's status.
C4_SuccessStatusMatches ==
  (Responded /\ BackendAnswered /\ Is2xx(net.status) /\ ValidJSON(net.body)) =>
    responses[1].status = net.status

\* C5: when the outbound call fails, or the backend's body is not valid JSON,
\* the response is 500 {"error": "Internal server error"}, the same for every
\* such failure, on each of the three routes.
C5_FailureIsGeneric500 ==
  (pc = "done" /\ (net.kind = "error" \/ (BackendAnswered /\ ~ValidJSON(net.body)))) =>
    responses = <<Resp500>>

C5_Witness ==
  /\ pc = "done" /\ BackendAnswered /\ net.status = 404 /\ ~ValidJSON(net.body)
  /\ route = "users/[email]"
  /\ responses = <<Resp500>>

\* C6: on delete-member and users/me every outbound request carries an
\* Authorization header, and its value is the inbound request's.
C6_CredentialForwarded ==
  route \in AuthRoutes =>
    \A i \in 1..Len(outbound) :
      /\ outbound[i].authorization # NoHeader
      /\ outbound[i].authorization = authHeader

C6_Witness ==
  /\ route = "users/me" /\ authHeader = "Bearer B"
  /\ Len(outbound) = 1 /\ outbound[1].authorization = "Bearer B"

\* The invocation passed the authorization precondition of its route.
PassedAuth == route = "users/[email]" \/ (route \in AuthRoutes /\ HasCredential)

\* C7 as stated: an invocation that passed the authorization precondition has
\* issued exactly one outbound call when it responds, and no invocation ever
\* issues a second one.
C7_AsStated ==
  /\ Len(outbound) <= 1
  /\ (pc = "done" /\ PassedAuth) => Len(outbound) = 1

\* C7 amended: an invocation that passed the authorization precondition and,
\* on delete-member, whose inbound body is valid JSON, has issued exactly one
\* outbound call when it responds; no invocation ever issues a second one,
\* whether the first succeeds, returns an error status, or fails.
C7_OneOutboundCall ==
  /\ Len(outbound) <= 1
  /\ (pc = "done" /\ PassedAuth /\ (route = "delete-member" => ValidJSON(reqBody)))
       => Len(outbound) = 1

C7_Witness ==
  pc = "done" /\ route = "delete-member" /\ net.kind = "error" /\ Len(outbound) = 1

\* C8: in delete-member the Authorization check comes before the body is read
\* and the body is read before the outbound call: without the header the
\* answer is 401 also when the body is malformed, and the body is never read;
\* with the header and a malformed body the answer is the generic 500 and no
\* outbound call is made.
C8_AuthThenBodyThenFetch ==
  route = "delete-member" =>
    /\ authHeader = NoHeader => (responses = <<Resp401>> /\ ~bodyRead)
    /\ (HasCredential /\ ~ValidJSON(reqBody) /\ pc = "done") =>
         (responses = <<Resp500>> /\ outbound = <<>> /\ net = NoReply)
    /\ outbound # <<>> => bodyRead

C8_Witness ==
  /\ route = "delete-member" /\ HasCredential /\ ~ValidJSON(reqBody)
  /\ pc = "done" /\ bodyRead

\* C9: users/{email} requires no authorization: a 401 response comes only from
\* a backend 401, the request is forwarded whatever its Authorization header,
\* and the outbound request never carries an Authorization header.
C9_NoAuthOnEmailRoute ==
  route = "users/[email]" =>
    /\ Len(outbound) = 1
    /\ outbound[1].authorization = NoHeader
    /\ \A i \in 1..Len(responses) :
         responses[i].status = 401 => (BackendAnswered /\ net.status = 401)

C9_Witness ==
  /\ route = "users/[email]" /\ authHeader = "Bearer A"
  /\ Responded /\ BackendAnswered /\ net.status = 401 /\ responses[1].status = 401

\* The response is the fixed 401, the generic 500, or a relay of the reply.
ResponseShape(r) ==
  \/ r = Resp401
  \/ r = Resp500
  \/ /\ BackendAnswered /\ ValidJSON(net.body)
     /\ r.body = Stringify(ParseJSON(net.body).val)
     /\ r.status \in {net.status, 200}

\* C10: every invocation returns at most one response, of one of the three
\* shapes, and is finished exactly when it has returned it; while the outbound
\* call is unsettled nothing is returned; and every invocation eventually
\* returns unless its outbound call stays unsettled for ever.
C10_RespondsOnceIfSettled ==
  /\ [](/\ Len(responses) <= 1
        /\ (pc = "done") <=> (Len(responses) = 1)
        /\ \A i \in 1..Len(responses) : ResponseShape(responses[i])
        /\ (pc = "fetching" /\ net = Pending) => responses = <<>>)
  /\ \/ <>[](pc = "fetching" /\ net = Pending)
     \/ [](pc # "idle" => <>(pc = "done"))

C10_Witness ==
  /\ Responded /\ route = "users/me" /\ BackendAnswered /\ net.status = 200
  /\ responses[1] = [status |-> 200, body |-> <<"{\"success\":true}">>]

====
